---- MODULE Spec2Model ----
(***************************************************************************)
(* FinCredo (src/main.py): a FastAPI service that fetches stock data from  *)
(* an upstream provider, reshapes it into one of three views and keeps the *)
(* results in a module-level dictionary with a per-class time-to-live.     *)
(*                                                                         *)
(* Modelling conventions                                                   *)
(*  - A Python value is a record [t, v]: None, a number, a boolean or a    *)
(*    string (strings are numbered, 0 being the empty string).             *)
(*  - A Python dict is a TLA+ function whose DOMAIN is the dict's key set. *)
(*  - A symbol string is a sequence of tokens: a ticker name, the suffix   *)
(*    ".NS", a blank " " or a comma ",".  "TCS.NS" is <<"TCS", ".NS">>.    *)
(*  - Dicts built by a fetch live in `heap`; the cache and the locals of   *)
(*    handlers hold references (object ids), as in Python.                 *)
(*  - time.time() is the integer clock `now` (whole seconds).              *)
(***************************************************************************)
EXTENDS Integers, Sequences, FiniteSets, TLC

\* ------------------------------------------------------------------------
\* Python values
\* ------------------------------------------------------------------------
None == [t |-> "none", v |-> 0]

Num(n) == [t |-> "num", v |-> n]

Str(n) == [t |-> "str", v |-> n]

Bool(b) == [t |-> "bool", v |-> IF b THEN 1 ELSE 0]

\* Python truthiness of a value: None, 0, "" and False are falsy.
Truthy(x) == x.t # "none" /\ x.v # 0

\* Python's `a or b`: a when a is truthy, b otherwise.
Or(a, b) == IF Truthy(a) THEN a ELSE b

\* dict.get(key): the value, or None when the key is absent.
Get(d, k) == IF k \in DOMAIN d THEN d[k] ELSE None

\* The mutant of SetItem: the dict is replaced by one holding only the key.
SetItemOnly(d, k, v) == [x \in {k} |-> v]

\* d[k] = v on a dict.
SetItem(d, k, v) == [x \in DOMAIN d \cup {k} |-> IF x = k THEN v ELSE d[x]]

\* ------------------------------------------------------------------------
\* Symbols
\* ------------------------------------------------------------------------
\* symbol.endswith('.NS')
EndsWithNS(s) == Len(s) > 0 /\ s[Len(s)] = ".NS"

\* if not symbol.endswith('.NS'): symbol += '.NS'
AddSuffix(s) == IF EndsWithNS(s) THEN s ELSE Append(s, ".NS")

\* f"{cache_type}:{symbol}"
CacheKey(cache_type, symbol) == <<cache_type, symbol>>

\* ------------------------------------------------------------------------
\* The three result shapes built by fetch_optimized_stock_data
\* ------------------------------------------------------------------------
RECURSIVE SeqMax(_, _)
SeqMax(s, f) ==
    IF Len(s) = 1 THEN s[1][f]
    ELSE LET m == SeqMax(Tail(s), f) IN IF s[1][f] > m THEN s[1][f] ELSE m

RECURSIVE SeqMin(_, _)
SeqMin(s, f) ==
    IF Len(s) = 1 THEN s[1][f]
    ELSE LET m == SeqMin(Tail(s), f) IN IF s[1][f] < m THEN s[1][f] ELSE m

\* float(hist['High'].max()) if not hist.empty else None
YearHigh(hist) == IF Len(hist) # 0 THEN Num(SeqMax(hist, "High")) ELSE None

\* float(hist['Low'].min()) if not hist.empty else None
YearLow(hist) == IF Len(hist) # 0 THEN Num(SeqMin(hist, "Low")) ELSE None

PriceOnlyResult(symbol, data, t) ==
    [ symbol        |-> symbol,
      currentPrice  |-> Or(Get(data, "currentPrice"), Get(data, "regularMarketPrice")),
      change        |-> Get(data, "regularMarketChange"),
      changePercent |-> Get(data, "regularMarketChangePercent"),
      volume        |-> Or(Get(data, "volume"), Get(data, "regularMarketVolume")),
      timestamp     |-> Num(t) ]

SummaryResult(symbol, data, t) ==
    [ symbol           |-> symbol,
      name             |-> Get(data, "longName"),
      currentPrice     |-> Or(Get(data, "currentPrice"), Get(data, "regularMarketPrice")),
      change           |-> Get(data, "regularMarketChange"),
      changePercent    |-> Get(data, "regularMarketChangePercent"),
      peRatio          |-> Or(Get(data, "trailingPE"), Get(data, "forwardPE")),
      eps              |-> Or(Get(data, "trailingEps"), Get(data, "forwardEps")),
      priceToBook      |-> Get(data, "priceToBook"),
      dividendYield    |-> Get(data, "dividendYield"),
      sector           |-> Get(data, "sector"),
      marketCap        |-> Get(data, "marketCap"),
      volume           |-> Or(Get(data, "volume"), Get(data, "regularMarketVolume")),
      fiftyTwoWeekHigh |-> Get(data, "fiftyTwoWeekHigh"),
      fiftyTwoWeekLow  |-> Get(data, "fiftyTwoWeekLow"),
      timestamp        |-> Num(t) ]

FullResult(symbol, data, hist, t) ==
    LET year_high == YearHigh(hist)
        year_low  == YearLow(hist)
    IN
    [ symbol        |-> symbol,
      name          |-> Get(data, "longName"),
      currentPrice  |-> Or(Get(data, "currentPrice"), Get(data, "regularMarketPrice")),
      open          |-> Or(Get(data, "open"), Get(data, "regularMarketOpen")),
      dayHigh       |-> Or(Get(data, "dayHigh"), Get(data, "regularMarketDayHigh")),
      dayLow        |-> Or(Get(data, "dayLow"), Get(data, "regularMarketDayLow")),
      previousClose |-> Or(Get(data, "previousClose"), Get(data, "regularMarketPreviousClose")),
      change        |-> Get(data, "regularMarketChange"),
      changePercent |-> Get(data, "regularMarketChangePercent"),
      volume        |-> Or(Get(data, "volume"), Get(data, "regularMarketVolume")),
      averageVolume |-> Or(Get(data, "averageVolume"), Get(data, "averageVolume10days")),
      marketCap     |-> Get(data, "marketCap"),
      currency      |-> Get(data, "currency"),
      fiftyTwoWeekHigh   |-> Or(Get(data, "fiftyTwoWeekHigh"), year_high),
      fiftyTwoWeekLow    |-> Or(Get(data, "fiftyTwoWeekLow"), year_low),
      fiftyTwoWeekChange |-> Get(data, "52WeekChange"),
      peRatio         |-> Or(Get(data, "trailingPE"), Get(data, "forwardPE")),
      pegRatio        |-> Get(data, "pegRatio"),
      priceToBook     |-> Get(data, "priceToBook"),
      priceToSales    |-> Get(data, "priceToSalesTrailing12Months"),
      enterpriseValue |-> Get(data, "enterpriseValue"),
      evToRevenue     |-> Get(data, "enterpriseToRevenue"),
      evToEbitda      |-> Get(data, "enterpriseToEbitda"),
      eps             |-> Or(Get(data, "trailingEps"), Get(data, "forwardEps")),
      beta            |-> Get(data, "beta"),
      bookValue       |-> Get(data, "bookValue"),
      profitMargins   |-> Get(data, "profitMargins"),
      returnOnAssets  |-> Get(data, "returnOnAssets"),
      returnOnEquity  |-> Get(data, "returnOnEquity"),
      dividendYield   |-> Get(data, "dividendYield"),
      dividendRate    |-> Get(data, "dividendRate"),
      exDividendDate  |-> Get(data, "exDividendDate"),
      payoutRatio     |-> Get(data, "payoutRatio"),
      fiveYearAvgDividendYield |-> Get(data, "fiveYearAvgDividendYield"),
      sector    |-> Get(data, "sector"),
      industry  |-> Get(data, "industry"),
      country   |-> Get(data, "country"),
      exchange  |-> Get(data, "exchange"),
      quoteType |-> Get(data, "quoteType"),
      website   |-> Get(data, "website"),
      employees |-> Get(data, "fullTimeEmployees"),
      fiftyDayAverage      |-> Get(data, "fiftyDayAverage"),
      twoHundredDayAverage |-> Get(data, "twoHundredDayAverage"),
      totalCash        |-> Get(data, "totalCash"),
      totalDebt        |-> Get(data, "totalDebt"),
      debtToEquity     |-> Get(data, "debtToEquity"),
      currentRatio     |-> Get(data, "currentRatio"),
      quickRatio       |-> Get(data, "quickRatio"),
      grossMargins     |-> Get(data, "grossMargins"),
      operatingMargins |-> Get(data, "operatingMargins"),
      totalRevenue     |-> Get(data, "totalRevenue"),
      revenuePerShare  |-> Get(data, "revenuePerShare"),
      revenueGrowth    |-> Get(data, "revenueGrowth"),
      earningsGrowth   |-> Get(data, "earningsGrowth"),
      recommendationMean      |-> Get(data, "recommendationMean"),
      recommendationKey       |-> Get(data, "recommendationKey"),
      numberOfAnalystOpinions |-> Get(data, "numberOfAnalystOpinions"),
      targetHighPrice  |-> Get(data, "targetHighPrice"),
      targetLowPrice   |-> Get(data, "targetLowPrice"),
      targetMeanPrice  |-> Get(data, "targetMeanPrice"),
      sharesOutstanding       |-> Get(data, "sharesOutstanding"),
      floatShares             |-> Get(data, "floatShares"),
      heldPercentInsiders     |-> Get(data, "heldPercentInsiders"),
      heldPercentInstitutions |-> Get(data, "heldPercentInstitutions"),
      shortRatio              |-> Get(data, "shortRatio"),
      shortPercentOfFloat     |-> Get(data, "shortPercentOfFloat"),
      timestamp        |-> Num(t),
      lastMarketUpdate |-> Get(data, "regularMarketTime") ]

\* The if / elif / else over data_type that builds `result`.
BuildResult(symbol, data_type, data, hist, t) ==
    IF data_type = "price_only" THEN PriceOnlyResult(symbol, data, t)
    ELSE IF data_type = "summary" THEN SummaryResult(symbol, data, t)
    ELSE FullResult(symbol, data, hist, t)

\* "price" if data_type == "price_only" else "company"
CacheType(data_type) == IF data_type = "price_only" THEN "price" ELSE "company"


\* ------------------------------------------------------------------------
\* Program constants and model bounds
\* ------------------------------------------------------------------------
PRICE_CACHE_DURATION == 30

COMPANY_CACHE_DURATION == 3600

\* MAX_CACHE_SIZE is 1000 in the source (src/main.py:45).  The store's
\* behaviour is parametric in it; the model runs it at a small value so that
\* the eviction branch is reached.
MAX_CACHE_SIZE == 1

\* ThreadPoolExecutor(max_workers=10)
max_workers == 10

\* symbols.split(',')[:20] in get_batch_prices
BATCH_PRICE_LIMIT == 20

\* symbols.split(',')[:15] in get_watchlist_data
WATCHLIST_LIMIT == 15

\* The instants at which the model reads the clock: both TTL boundaries and
\* the second before each.
ClockValues ==
    {0, PRICE_CACHE_DURATION - 1, PRICE_CACHE_DURATION,
     COMPANY_CACHE_DURATION - 1, COMPANY_CACHE_DURATION}

VARIABLES
    cache,      \* the module-level dict, in insertion order: <<[key, obj, ts]>>
    heap,       \* object id -> dict (the result dicts built by fetches)
    now,        \* time.time()
    upstream,   \* canonical symbol -> what yfinance answers for it
    reqs,       \* request slot -> the handler coroutine running in it
    tasks,      \* task id -> a call of fetch_optimized_stock_data on the pool
    queue,      \* the executor's FIFO work queue of task ids
    fill        \* history: the stores made since the store was empty (see NoteStore)

vars == <<cache, heap, now, upstream, reqs, tasks, queue, fill>>

\* ------------------------------------------------------------------------
\* The cache dict
\* ------------------------------------------------------------------------
Keys(c) == {c[i].key : i \in 1..Len(c)}

\* cache_key in cache
HasKey(c, k) == k \in Keys(c)

\* cache[cache_key]
Entry(c, k) == c[CHOOSE i \in 1..Len(c) : c[i].key = k]

\* The mutant of OldestKey: the entry stored last is chosen.
NewestKey(c) ==
    c[CHOOSE i \in 1..Len(c) :
        /\ \A j \in 1..Len(c) : c[i].ts >= c[j].ts
        /\ \A j \in 1..(i - 1) : c[j].ts < c[i].ts].key

\* min(cache.keys(), key=lambda k: cache[k][1]): the first key, in the dict's
\* iteration order, among those with the smallest timestamp.
OldestKey(c) ==
    c[CHOOSE i \in 1..Len(c) :
        /\ \A j \in 1..Len(c) : c[i].ts <= c[j].ts
        /\ \A j \in 1..(i - 1) : c[j].ts > c[i].ts].key

\* del cache[k]
DelKey(c, k) == SelectSeq(c, LAMBDA e : e.key # k)

\* cache[k] = (obj, t): an existing key keeps its place in the dict's order.
StoreEntry(c, k, obj, t) ==
    IF HasKey(c, k)
    THEN [i \in 1..Len(c) |->
            IF c[i].key = k THEN [key |-> k, obj |-> obj, ts |-> t] ELSE c[i]]
    ELSE Append(c, [key |-> k, obj |-> obj, ts |-> t])

\* PRICE_CACHE_DURATION if cache_type == "price" else COMPANY_CACHE_DURATION
Duration(cache_type) ==
    IF cache_type = "price" THEN PRICE_CACHE_DURATION ELSE COMPANY_CACHE_DURATION

\* The mutant of Fresh: an entry aged exactly the TTL still counts.
FreshInclusive(t, timestamp, cache_type) == t - timestamp <= Duration(cache_type)

\* time.time() - timestamp < duration
Fresh(t, timestamp, cache_type) == t - timestamp < Duration(cache_type)

\* The mutant of NeedsEviction: eviction as soon as the store is full.
NeedsEvictionAtMax(c) == Len(c) >= MAX_CACHE_SIZE

\* len(cache) > MAX_CACHE_SIZE
NeedsEviction(c) == Len(c) > MAX_CACHE_SIZE


\* ------------------------------------------------------------------------
\* Handlers, tasks and the heap
\* ------------------------------------------------------------------------
NoResp == [status |-> 0, content |-> <<>>]

IdleReq ==
    [kind |-> "none", arg |-> <<>>, wtype |-> "", symbol |-> <<>>, pc |-> "idle",
     cached_data |-> 0, ntasks |-> 0, resp |-> NoResp]

NewTask(symbol, data_type) ==
    [symbol |-> symbol, data_type |-> data_type, pc |-> "queued", res |-> 0,
     n0 |-> 0, oldest |-> <<>>]

Slots == DOMAIN reqs

Running == {t \in DOMAIN tasks : tasks[t].pc \notin {"queued", "done"}}

\* A handler is between requests.
Quiet(s) == reqs[s].pc \in {"idle", "done"}

\* Object ids are addresses: only which references are equal matters.  The
\* heap is kept compact, its objects numbered in the order in which the
\* cache, then each handler and its tasks, refer to them; a dict nobody
\* refers to is freed (reference counting).
RECURSIVE SlotRefs(_, _, _)
SlotRefs(r, t, s) ==
    IF s \notin DOMAIN r THEN <<>>
    ELSE <<r[s].cached_data>>
           \o [i \in 1..r[s].ntasks |-> t[<<s, i>>].res]
           \o SlotRefs(r, t, s + 1)

\* The references the cache, then each handler and its tasks, hold.
Refs(c, r, t) == [i \in 1..Len(c) |-> c[i].obj] \o SlotRefs(r, t, 1)

\* The places of s where a non-null reference occurs for the first time.
FirstAt(s) == {i \in 1..Len(s) : s[i] # 0 /\ \A j \in 1..(i - 1) : s[j] # s[i]}

\* The n-th smallest member of a set of numbers.
Nth(F, n) == CHOOSE i \in F : Cardinality({j \in F : j < i}) = n - 1

\* The distinct non-null references of s in the order of their first
\* occurrence.
Distinct(s, F) == [n \in 1..Cardinality(F) |-> s[Nth(F, n)]]

\* The state after a step, with the heap compacted: L lists the objects
\* still referred to and m renumbers them.
Commit(c, h, r, t) ==
    \E R \in {Refs(c, r, t)} :
    \E F \in {FirstAt(R)} :
    \E L \in {Distinct(R, F)} :
       LET m(o) == IF o = 0 THEN 0 ELSE CHOOSE n \in 1..Len(L) : L[n] = o IN
       /\ cache' = [i \in 1..Len(c) |-> [c[i] EXCEPT !.obj = m(@)]]
       /\ heap'  = [n \in 1..Len(L) |-> h[L[n]]]
       /\ reqs'  = [s \in DOMAIN r |-> [r[s] EXCEPT !.cached_data = m(@)]]
       /\ tasks' = [x \in DOMAIN t |-> [t[x] EXCEPT !.res = m(@)]]

\* A new dict d on the heap: <<its id, the heap holding it>>.
Alloc(h, d) == <<Len(h) + 1, Append(h, d)>>

\* {"error": f"Stock {symbol} not found: {str(e)}"}
ErrorResult(symbol) == [error |-> symbol]

\* "error" in result
IsError(d) == "error" \in DOMAIN d

\* What yfinance answers for a symbol; a symbol it does not know raises.
UpstreamRaises(symbol) ==
    \/ symbol \notin DOMAIN upstream
    \/ upstream[symbol].raises

\* The view a single-symbol endpoint asks fetch_optimized_stock_data for.
DataTypeOf(kind) ==
    IF kind = "stock" THEN "full"
    ELSE IF kind = "price" THEN "price_only"
    ELSE "summary"

\* The cache_type a single-symbol endpoint passes to get_cached_data.
LookupType(kind) == IF kind = "price" THEN "price" ELSE "company"

\* The symbol an endpoint looks up: get_stock adds the suffix first (lines
\* 231-232), get_price_only and get_summary_optimized use it as received.
LookupSymbol(kind, symbol) == IF kind = "stock" THEN AddSuffix(symbol) ELSE symbol

\* `fill` is a history variable.  While it is open it records the stores
\* made since the store was empty, as long as they are to distinct keys and
\* at most MAX_CACHE_SIZE + 2 of them: how many, to which keys, and each
\* eviction with whether the deleted entry had the smallest timestamp.  A
\* store to a key already used, or the request after the last recorded
\* store, closes it.
ClosedFill == [open |-> FALSE, puts |-> 0, keys |-> {}, evicted |-> <<>>]

NoteEviction(k) ==
    IF fill.open
    THEN [fill EXCEPT !.evicted = Append(@,
            [key |-> k,
             oldest |-> \A i \in 1..Len(cache) : Entry(cache, k).ts <= cache[i].ts])]
    ELSE fill

NoteStore(k) ==
    IF ~fill.open THEN fill
    ELSE IF k \in fill.keys \/ fill.puts >= MAX_CACHE_SIZE + 2 THEN ClosedFill
    ELSE [fill EXCEPT !.puts = @ + 1, !.keys = @ \cup {k}]

NoteRequest == IF fill.puts >= MAX_CACHE_SIZE + 2 THEN ClosedFill ELSE fill

\* ------------------------------------------------------------------------
\* Single-symbol endpoints: get_stock, get_price_only, get_summary_optimized
\* ------------------------------------------------------------------------
\* A request arrives; the handler runs up to the call of get_cached_data.
StartSingle(s, kind, symbol) ==
    /\ Quiet(s)
    /\ reqs' = [reqs EXCEPT ![s] =
          [IdleReq EXCEPT !.kind = kind, !.arg = symbol,
                          !.symbol = LookupSymbol(kind, symbol), !.pc = "get_in"]]
    /\ fill' = NoteRequest
    /\ UNCHANGED <<cache, heap, now, upstream, tasks, queue>>

\* get_cached_data, line 49: `if cache_key in cache`
GetIn(s) ==
    /\ reqs[s].pc = "get_in"
    /\ LET cache_key == CacheKey(LookupType(reqs[s].kind), reqs[s].symbol) IN
       reqs' = [reqs EXCEPT ![s].pc =
                  IF HasKey(cache, cache_key) THEN "get_read" ELSE "miss"]
    /\ UNCHANGED <<cache, heap, now, upstream, tasks, queue, fill>>

\* The mutant of GetRead: an expired entry is deleted by the lookup.
GetReadPurging(s) ==
    /\ reqs[s].pc = "get_read"
    /\ LET cache_type == LookupType(reqs[s].kind)
           cache_key  == CacheKey(cache_type, reqs[s].symbol)
       IN
       IF ~HasKey(cache, cache_key)
       THEN /\ reqs' = [reqs EXCEPT ![s].pc = "done",
                                    ![s].resp = [status |-> 500, content |-> <<>>]]
            /\ UNCHANGED <<cache, heap, tasks>>
       ELSE IF Fresh(now, Entry(cache, cache_key).ts, cache_type)
       THEN /\ reqs' = [reqs EXCEPT ![s].pc = "hit",
                                    ![s].cached_data = Entry(cache, cache_key).obj]
            /\ UNCHANGED <<cache, heap, tasks>>
       ELSE Commit(DelKey(cache, cache_key), heap, [reqs EXCEPT ![s].pc = "miss"], tasks)
    /\ UNCHANGED <<now, upstream, queue, fill>>

\* get_cached_data, lines 50-54: read the pair and compare its age with the
\* TTL.  A key deleted since line 49 raises KeyError, which the handler's
\* `except Exception` turns into status 500.
GetRead(s) ==
    /\ reqs[s].pc = "get_read"
    /\ LET cache_type == LookupType(reqs[s].kind)
           cache_key  == CacheKey(cache_type, reqs[s].symbol)
       IN
       IF ~HasKey(cache, cache_key)
       THEN reqs' = [reqs EXCEPT ![s].pc = "done",
                                 ![s].resp = [status |-> 500, content |-> <<>>]]
       ELSE IF Fresh(now, Entry(cache, cache_key).ts, cache_type)
       THEN reqs' = [reqs EXCEPT ![s].pc = "hit",
                                 ![s].cached_data = Entry(cache, cache_key).obj]
       ELSE reqs' = [reqs EXCEPT ![s].pc = "miss"]
    /\ UNCHANGED <<cache, heap, now, upstream, tasks, queue, fill>>

\* cached_data["cached"] = True; return JSONResponse(content=cached_data)
ServeHit(s) ==
    /\ reqs[s].pc = "hit"
    /\ LET o == reqs[s].cached_data
           d == SetItem(heap[o], "cached", Bool(TRUE))
       IN
       Commit(cache, [heap EXCEPT ![o] = d],
              [reqs EXCEPT ![s].pc = "done", ![s].cached_data = 0,
                           ![s].resp = [status |-> 200, content |-> d]],
              tasks)
    /\ UNCHANGED <<now, upstream, queue, fill>>

\* loop.run_in_executor(executor, fetch_optimized_stock_data, symbol, view)
Submit(s) ==
    /\ reqs[s].pc = "miss"
    /\ reqs' = [reqs EXCEPT ![s].pc = "await", ![s].ntasks = 1]
    /\ tasks' = [t \in DOMAIN tasks \cup {<<s, 1>>} |->
          IF t = <<s, 1>>
          THEN NewTask(reqs[s].symbol, DataTypeOf(reqs[s].kind))
          ELSE tasks[t]]
    /\ queue' = Append(queue, <<s, 1>>)
    /\ UNCHANGED <<cache, heap, now, upstream, fill>>

\* The awaited future completes.  An error dict raises HTTPException(404)
\* inside the try block, where `except Exception` catches it and raises
\* HTTPException(500); otherwise result["cached"] = False and the dict is
\* returned.
Await(s) ==
    /\ reqs[s].pc = "await"
    /\ tasks[<<s, 1>>].pc = "done"
    /\ LET o  == tasks[<<s, 1>>].res
           d  == SetItem(heap[o], "cached", Bool(FALSE))
           t1 == [t \in DOMAIN tasks \ {<<s, 1>>} |-> tasks[t]]
       IN
       IF IsError(heap[o])
       THEN Commit(cache, heap,
                   [reqs EXCEPT ![s].pc = "done", ![s].ntasks = 0,
                                ![s].resp = [status |-> 500, content |-> <<>>]],
                   t1)
       ELSE Commit(cache, [heap EXCEPT ![o] = d],
                   [reqs EXCEPT ![s].pc = "done", ![s].ntasks = 0,
                                ![s].resp = [status |-> 200, content |-> d]],
                   t1)
    /\ UNCHANGED <<now, upstream, queue, fill>>

\* ------------------------------------------------------------------------
\* fetch_optimized_stock_data, run by a worker thread of the pool
\* ------------------------------------------------------------------------
\* The mutant of TaskStart: a job starts although no worker is free.
TaskStartUnbounded(t) ==
    /\ Len(queue) > 0
    /\ t = Head(queue)
    /\ queue' = Tail(queue)
    /\ tasks' = [tasks EXCEPT ![t].pc = "fetch"]
    /\ UNCHANGED <<cache, heap, now, upstream, reqs, fill>>

\* A free worker takes the next job from the executor's queue.
TaskStart(t) ==
    /\ Len(queue) > 0
    /\ t = Head(queue)
    /\ Cardinality(Running) < max_workers
    /\ queue' = Tail(queue)
    /\ tasks' = [tasks EXCEPT ![t].pc = "fetch"]
    /\ UNCHANGED <<cache, heap, now, upstream, reqs, fill>>

\* The except clause of fetch_optimized_stock_data (lines 210-212): the
\* function returns the error dict instead of `result`.
Caught(t) ==
    LET a == Alloc(heap, ErrorResult(tasks[t].symbol)) IN
    Commit(cache, a[2], reqs,
           [tasks EXCEPT ![t].pc = "done", ![t].res = a[1], ![t].n0 = 0,
                         ![t].oldest = <<>>])

\* The mutant of Fetch: a failed upstream call drops the entry stored
\* earlier under the fetch's key.
FetchInvalidating(t) ==
    /\ tasks[t].pc = "fetch"
    /\ LET symbol == AddSuffix(tasks[t].symbol)
           d == IF UpstreamRaises(symbol)
                THEN ErrorResult(symbol)
                ELSE BuildResult(symbol, tasks[t].data_type, upstream[symbol].info,
                                 upstream[symbol].hist, now)
           a == Alloc(heap, d)
       IN
       Commit(IF UpstreamRaises(symbol)
              THEN DelKey(cache, CacheKey(CacheType(tasks[t].data_type), symbol))
              ELSE cache,
              a[2], reqs,
              [tasks EXCEPT ![t].pc = IF UpstreamRaises(symbol) THEN "done" ELSE "put_len",
                            ![t].res = a[1], ![t].symbol = symbol])
    /\ UNCHANGED <<now, upstream, queue, fill>>

\* Lines 70-205: add the suffix, ask yfinance, build `result`.
Fetch(t) ==
    /\ tasks[t].pc = "fetch"
    /\ LET symbol == AddSuffix(tasks[t].symbol)
           d == IF UpstreamRaises(symbol)
                THEN ErrorResult(symbol)
                ELSE BuildResult(symbol, tasks[t].data_type, upstream[symbol].info,
                                 upstream[symbol].hist, now)
           a == Alloc(heap, d)
       IN
       Commit(cache, a[2], reqs,
              [tasks EXCEPT ![t].pc = IF UpstreamRaises(symbol) THEN "done" ELSE "put_len",
                            ![t].res = a[1], ![t].symbol = symbol])
    /\ UNCHANGED <<now, upstream, queue, fill>>

\* set_cache_data, line 59: `if len(cache) > MAX_CACHE_SIZE`
PutLen(t) ==
    /\ tasks[t].pc = "put_len"
    /\ tasks' = [tasks EXCEPT ![t].pc =
                   IF NeedsEviction(cache) THEN "min_start" ELSE "put_store"]
    /\ UNCHANGED <<cache, heap, now, upstream, reqs, queue, fill>>

\* Line 61: min() starts iterating cache.keys(); the iterator remembers the
\* dict's size.
MinStart(t) ==
    /\ tasks[t].pc = "min_start"
    /\ tasks' = [tasks EXCEPT ![t].pc = "min_end", ![t].n0 = Len(cache)]
    /\ UNCHANGED <<cache, heap, now, upstream, reqs, queue, fill>>

\* Line 61: the iteration ends.  If another thread changed the dict's size
\* meanwhile the iterator raises RuntimeError (and min() of an empty dict
\* raises ValueError); otherwise oldest_key is set.
MinEnd(t) ==
    /\ tasks[t].pc = "min_end"
    /\ IF Len(cache) # tasks[t].n0 \/ Len(cache) = 0
       THEN Caught(t)
       ELSE /\ tasks' = [tasks EXCEPT ![t].pc = "put_del", ![t].n0 = 0,
                                      ![t].oldest = OldestKey(cache)]
            /\ UNCHANGED <<cache, heap, reqs>>
    /\ UNCHANGED <<now, upstream, queue, fill>>

\* Line 62: del cache[oldest_key]; KeyError when the key is gone.
PutDel(t) ==
    /\ tasks[t].pc = "put_del"
    /\ IF HasKey(cache, tasks[t].oldest)
       THEN /\ Commit(DelKey(cache, tasks[t].oldest), heap, reqs,
                      [tasks EXCEPT ![t].pc = "put_store", ![t].oldest = <<>>])
            /\ fill' = NoteEviction(tasks[t].oldest)
       ELSE /\ Caught(t)
            /\ UNCHANGED fill
    /\ UNCHANGED <<now, upstream, queue>>

\* The mutant of PutStore: the result of a fetch whose caller has gone is
\* dropped and not stored.
PutStoreIfAwaited(t) ==
    /\ tasks[t].pc = "put_store"
    /\ LET cache_key == CacheKey(CacheType(tasks[t].data_type), tasks[t].symbol) IN
       IF reqs[t[1]].pc = "cancelled"
       THEN /\ tasks' = [tasks EXCEPT ![t].pc = "done"]
            /\ UNCHANGED <<cache, heap, reqs, fill>>
       ELSE /\ Commit(StoreEntry(cache, cache_key, tasks[t].res, now), heap, reqs,
                      [tasks EXCEPT ![t].pc = "done"])
            /\ fill' = NoteStore(cache_key)
    /\ UNCHANGED <<now, upstream, queue>>

\* Line 64: cache[cache_key] = (data, time.time()); line 208: return result.
PutStore(t) ==
    /\ tasks[t].pc = "put_store"
    /\ LET cache_key == CacheKey(CacheType(tasks[t].data_type), tasks[t].symbol) IN
       /\ Commit(StoreEntry(cache, cache_key, tasks[t].res, now), heap, reqs,
                 [tasks EXCEPT ![t].pc = "done"])
       /\ fill' = NoteStore(cache_key)
    /\ UNCHANGED <<now, upstream, queue>>

\* The caller goes away while the handler awaits its jobs: the await raises
\* asyncio.CancelledError and the handler answers 408.  Cancelling the
\* awaited future cancels the jobs still pending in the executor's queue; a
\* job a worker thread has started cannot be cancelled and runs on.
Cancel(s) ==
    /\ reqs[s].pc \in {"await", "gather"}
    /\ reqs' = [reqs EXCEPT ![s].pc = "cancelled",
                            ![s].resp = [status |-> 408, content |-> <<>>]]
    /\ tasks' = [t \in DOMAIN tasks |->
          IF t[1] = s /\ tasks[t].pc = "queued"
          THEN [tasks[t] EXCEPT !.pc = "done"]
          ELSE tasks[t]]
    /\ queue' = SelectSeq(queue, LAMBDA t : t[1] # s)
    /\ UNCHANGED <<cache, heap, now, upstream, fill>>

\* The jobs of a cancelled request have all ended: their results, which
\* nobody awaits, are dropped.
Drop(s) ==
    /\ reqs[s].pc = "cancelled"
    /\ \A i \in 1..reqs[s].ntasks : tasks[<<s, i>>].pc = "done"
    /\ Commit(cache, heap,
              [reqs EXCEPT ![s].pc = "done", ![s].ntasks = 0],
              [t \in {x \in DOMAIN tasks : x[1] # s} |-> tasks[t]])
    /\ UNCHANGED <<now, upstream, queue, fill>>

\* The provider stops answering for a symbol: from now on yfinance raises.
Outage(symbol) ==
    /\ ~UpstreamRaises(symbol)
    /\ upstream' = [upstream EXCEPT ![symbol].raises = TRUE]
    /\ UNCHANGED <<cache, heap, now, reqs, tasks, queue, fill>>

\* Time passes.
Tick(t) ==
    /\ t \in ClockValues
    /\ t > now
    /\ now' = t
    /\ UNCHANGED <<cache, heap, upstream, reqs, tasks, queue, fill>>

\* ------------------------------------------------------------------------
\* Batch endpoints: get_batch_prices, get_watchlist_data
\* ------------------------------------------------------------------------
\* The position of the first comma of a string, 0 when it has none.
FirstComma(str) ==
    IF \E i \in 1..Len(str) : str[i] = ","
    THEN CHOOSE i \in 1..Len(str) : str[i] = "," /\ \A j \in 1..(i - 1) : str[j] # ","
    ELSE 0

\* symbols.split(','): "" splits into one empty string.
RECURSIVE Split(_)
Split(str) ==
    IF FirstComma(str) = 0 THEN <<str>>
    ELSE <<SubSeq(str, 1, FirstComma(str) - 1)>>
           \o Split(SubSeq(str, FirstComma(str) + 1, Len(str)))

\* s.strip()
RECURSIVE Strip(_)
Strip(str) ==
    IF Len(str) > 0 /\ str[1] = " " THEN Strip(Tail(str))
    ELSE IF Len(str) > 0 /\ str[Len(str)] = " " THEN Strip(SubSeq(str, 1, Len(str) - 1))
    ELSE str

\* list[:n]
Take(list, n) == SubSeq(list, 1, IF Len(list) < n THEN Len(list) ELSE n)

\* The slice applied to the split symbols: [:20] and [:15].
LimitOf(kind) == IF kind = "batch_price" THEN BATCH_PRICE_LIMIT ELSE WATCHLIST_LIMIT

\* [s.strip() for s in symbols.split(',')[:limit]]
SymbolList(kind, symbols) ==
    LET cut == Take(Split(symbols), LimitOf(kind)) IN
    [i \in 1..Len(cut) |-> Strip(cut[i])]

\* "price_only" for /batch/price; for /watchlist,
\* "price_only" if type == "price" else "summary"
BatchDataType(kind, wtype) ==
    IF kind = "batch_price" \/ wtype = "price" THEN "price_only" ELSE "summary"

\* A batch request arrives: one job per symbol is handed to the executor and
\* the handler awaits asyncio.gather.
StartBatch(s, kind, symbols, wtype) ==
    /\ Quiet(s)
    /\ LET symbol_list == SymbolList(kind, symbols)
           mine == {<<s, i>> : i \in 1..Len(symbol_list)}
       IN
       /\ reqs' = [reqs EXCEPT ![s] =
             [IdleReq EXCEPT !.kind = kind, !.arg = symbols, !.wtype = wtype,
                             !.pc = "gather", !.ntasks = Len(symbol_list)]]
       /\ tasks' = [t \in DOMAIN tasks \cup mine |->
             IF t \in mine
             THEN NewTask(symbol_list[t[2]], BatchDataType(kind, wtype))
             ELSE tasks[t]]
       /\ queue' = queue \o [i \in 1..Len(symbol_list) |-> <<s, i>>]
    /\ fill' = NoteRequest
    /\ UNCHANGED <<cache, heap, now, upstream>>

\* [r for r in results if isinstance(r, dict) and "error" not in r]
RECURSIVE Successful(_)
Successful(results) ==
    IF results = <<>> THEN <<>>
    ELSE IF IsError(Head(results)) THEN Successful(Tail(results))
    ELSE <<Head(results)>> \o Successful(Tail(results))

\* [r.get("error", "Unknown error") for r in results if ... "error" in r]
RECURSIVE Errors(_)
Errors(results) ==
    IF results = <<>> THEN <<>>
    ELSE IF IsError(Head(results)) THEN <<Head(results)["error"]>> \o Errors(Tail(results))
    ELSE Errors(Tail(results))

\* The body of the batch response: get_batch_prices returns the records and
\* the errors, get_watchlist_data the records only.
BatchContent(kind, wtype, n, results) ==
    IF kind = "batch_price"
    THEN [count |-> n, successful |-> Len(Successful(results)),
          prices |-> Successful(results), errors |-> Errors(results)]
    ELSE [watchlist |-> Successful(results), count |-> Len(Successful(results)),
          type |-> wtype]

\* asyncio.gather returns once every job is done; the response is built.
Gather(s) ==
    /\ reqs[s].pc = "gather"
    /\ \A i \in 1..reqs[s].ntasks : tasks[<<s, i>>].pc = "done"
    /\ LET results == [i \in 1..reqs[s].ntasks |-> heap[tasks[<<s, i>>].res]]
           mine == {<<s, i>> : i \in 1..reqs[s].ntasks}
       IN
       Commit(cache, heap,
              [reqs EXCEPT ![s].pc = "done", ![s].ntasks = 0,
                           ![s].resp = [status |-> 200,
                                        content |-> BatchContent(reqs[s].kind, reqs[s].wtype,
                                                                 reqs[s].ntasks, results)]],
              [t \in DOMAIN tasks \ mine |-> tasks[t]])
    /\ UNCHANGED <<now, upstream, queue, fill>>

\* ------------------------------------------------------------------------
\* What the upstream provider answers
\* ------------------------------------------------------------------------
EmptyRaw == [x \in {} |-> None]

\* A well-covered ticker: both members of the price chain, a zero volume.
RichRaw ==
    [ longName |-> Str(1), sector |-> Str(2), currentPrice |-> Num(100),
      regularMarketPrice |-> Num(101), regularMarketChange |-> Num(3),
      volume |-> Num(0), regularMarketVolume |-> Num(7),
      trailingPE |-> Num(25), fiftyTwoWeekHigh |-> Num(120),
      fiftyTwoWeekLow |-> Num(80), marketCap |-> Num(5000) ]

\* A ticker for which only the regularMarket* fields are filled.
SparseRaw ==
    [ longName |-> Str(3), currentPrice |-> None, regularMarketPrice |-> Num(55),
      regularMarketVolume |-> Num(9), forwardPE |-> Num(12),
      regularMarketOpen |-> Num(54) ]

YearHist == << [High |-> 60, Low |-> 50], [High |-> 70, Low |-> 40] >>

TCS == <<"TCS", ".NS">>

INFY == <<"INFY", ".NS">>

NEWCO == <<"NEWCO", ".NS">>

Answer(info, hist) == [raises |-> FALSE, info |-> info, hist |-> hist]

\* TCS and INFY are known upstream; for NEWCO the provider answers an empty
\* record; any other symbol ("ZZZ-BAD") makes it raise.
Upstream0 ==
    [x \in {TCS, INFY, NEWCO} |->
        IF x = TCS THEN Answer(RichRaw, YearHist)
        ELSE IF x = INFY THEN Answer(SparseRaw, <<>>)
        ELSE Answer(EmptyRaw, <<>>)]

SingleKinds == {"stock", "price", "summary"}

\* The symbols clients ask for, with and without the exchange suffix.
InputSymbols == {<<"TCS">>, TCS, <<"ZZZ-BAD">>}

OpenFill == [open |-> TRUE, puts |-> 0, keys |-> {}, evicted |-> <<>>]

\* ------------------------------------------------------------------------
\* Spec: single-symbol requests served one at a time
\* ------------------------------------------------------------------------
\* The steps of the handlers and of the worker threads.
Steps ==
    \/ \E s \in Slots : GetIn(s)
    \/ \E s \in Slots : GetRead(s)
    \/ \E s \in Slots : ServeHit(s)
    \/ \E s \in Slots : Submit(s)
    \/ \E s \in Slots : Await(s)
    \/ \E t \in DOMAIN tasks : TaskStart(t)
    \/ \E t \in DOMAIN tasks : Fetch(t)
    \/ \E t \in DOMAIN tasks : PutLen(t)
    \/ \E t \in DOMAIN tasks : MinStart(t)
    \/ \E t \in DOMAIN tasks : MinEnd(t)
    \/ \E t \in DOMAIN tasks : PutDel(t)
    \/ \E t \in DOMAIN tasks : PutStore(t)

\* The clock is read between requests.
Clock == \E t \in ClockValues : (\A s \in Slots : Quiet(s)) /\ Tick(t)

Init ==
    /\ cache = <<>>
    /\ heap = <<>>
    /\ now = 0
    /\ upstream = Upstream0
    /\ reqs = [s \in {1} |-> IdleReq]
    /\ tasks = <<>>
    /\ queue = <<>>
    /\ fill = ClosedFill

Next ==
    \/ \E s \in Slots, k \in SingleKinds, sym \in InputSymbols : StartSingle(s, k, sym)
    \/ Steps
    \/ Clock

Spec == Init /\ [][Next]_vars


\* ------------------------------------------------------------------------
\* Claims checked under Spec
\* ------------------------------------------------------------------------
\* The key a request's lookup uses.
LookupKeyOf(s) == CacheKey(LookupType(reqs[s].kind), reqs[s].symbol)

\* The key under which a fetch for the request's symbol stores its result.
StoreKeyOf(s) == CacheKey(LookupType(reqs[s].kind), AddSuffix(reqs[s].arg))

\* A dict without its "cached" tag.
Untagged(d) == [x \in (DOMAIN d) \ {"cached"} |-> d[x]]

\* The TTL of a key's class, as the claims state it.
TtlOf(key) == IF key[1] = "price" THEN 30 ELSE 3600

\* C1: a request for s and a request for s with ".NS" use one cache key for
\* the lookup and for the store: a single-symbol request goes to the worker
\* pool (a miss) only when the store holds no fresh entry under the key its
\* own fetch will store to.
C1_LookupUsesStoreKey ==
    \A s \in Slots :
        (reqs[s].kind \in SingleKinds /\ reqs[s].pc = "miss")
        => ~(/\ HasKey(cache, StoreKeyOf(s))
             /\ now - Entry(cache, StoreKeyOf(s)).ts < TtlOf(StoreKeyOf(s)))

\* C2: get(key) returns the stored record if and only if an entry for key
\* exists and now - storedAt < 30 (price class) or 3600 (company class);
\* otherwise it returns a miss.
C2_GetHitsIffFresh ==
    [][\A s \in Slots :
        (reqs[s].pc \in {"get_in", "get_read"} /\ reqs'[s].pc \in {"hit", "miss"})
        => /\ (reqs'[s].pc = "hit")
                <=> (\E i \in 1..Len(cache) :
                        /\ cache[i].key = LookupKeyOf(s)
                        /\ now - cache[i].ts < TtlOf(LookupKeyOf(s)))
           /\ (reqs'[s].pc = "hit")
                => reqs'[s].cached_data = Entry(cache, LookupKeyOf(s)).obj]_vars

\* C2 witness: a lookup has just missed although the entry is in the store.
C2_ExpiredMissReached ==
    \E s \in Slots :
        /\ reqs[s].pc = "miss"
        /\ HasKey(cache, LookupKeyOf(s))
        /\ now - Entry(cache, LookupKeyOf(s)).ts >= TtlOf(LookupKeyOf(s))

\* The field set of the view an endpoint serves.
FieldsOfView(kind) == DOMAIN BuildResult(<<>>, DataTypeOf(kind), EmptyRaw, <<>>, 0)

\* C3: the record returned for a request with view V has the field set of
\* view V, also when it is served from the cache.
C3_ResponseHasViewShape ==
    \A s \in Slots :
        (reqs[s].kind \in SingleKinds /\ reqs[s].pc = "done" /\ reqs[s].resp.status = 200)
        => DOMAIN Untagged(reqs[s].resp.content) = FieldsOfView(reqs[s].kind)

\* C6: put(k, r1) followed by get(k) within the TTL returns r1 with every
\* field unchanged except the cached tag: the record served from the cache
\* is, but for the tag, the record a fetch built when the entry was stored.
C6_HitReturnsStoredRecord ==
    [][\A s \in Slots :
        (reqs[s].pc = "hit" /\ reqs'[s].pc = "done")
        => /\ reqs'[s].resp.status = 200
           /\ reqs'[s].resp.content["cached"] = Bool(TRUE)
           /\ \E i \in 1..Len(cache), dt \in {"price_only", "summary", "full"} :
                /\ cache[i].key = LookupKeyOf(s)
                /\ cache[i].key[1] = CacheType(dt)
                /\ Untagged(reqs'[s].resp.content)
                     = BuildResult(cache[i].key[2], dt, upstream[cache[i].key[2]].info,
                                   upstream[cache[i].key[2]].hist, cache[i].ts)]_vars

\* C6 witness: a request has been answered from the cache.
C6_CachedResponseReached ==
    \E s \in Slots :
        /\ reqs[s].pc = "done"
        /\ reqs[s].resp.status = 200
        /\ reqs[s].resp.content["cached"] = Bool(TRUE)

\* A step of get_cached_data by handler s.
GetStep(s) == reqs[s].pc \in {"get_in", "get_read"} /\ reqs'[s].pc # reqs[s].pc

\* A step of set_cache_data that deletes or stores an entry.
PutStep == \E t \in DOMAIN tasks : tasks[t].pc \in {"put_del", "put_store"} /\ tasks'[t].pc # tasks[t].pc

\* C7: get never changes the store; past the TTL it returns a miss while
\* the entry stays in the store and in its size; an entry leaves the store
\* or changes only in the eviction step or the store step of a put.
C7_GetLeavesStoreAlone ==
    [][/\ \A s \in Slots :
            GetStep(s)
            => /\ cache' = cache
               /\ heap' = heap
               /\ (HasKey(cache, LookupKeyOf(s))
                   /\ now - Entry(cache, LookupKeyOf(s)).ts >= TtlOf(LookupKeyOf(s))
                   /\ reqs[s].pc = "get_read")
                  => (reqs'[s].pc = "miss" /\ HasKey(cache', LookupKeyOf(s))
                      /\ Len(cache') = Len(cache))
       /\ (cache' # cache) => PutStep]_vars

\* C7 witness: a handler is about to fetch for a key whose expired entry is
\* still in the store.
C7_ExpiredEntryStillStored ==
    \E s \in Slots :
        /\ reqs[s].pc = "await"
        /\ HasKey(cache, LookupKeyOf(s))
        /\ ~Fresh(now, Entry(cache, LookupKeyOf(s)).ts, LookupType(reqs[s].kind))
        /\ Len(cache) > 0

\* The fallback chains: output field, first and second raw field.
Chains ==
    { <<"currentPrice", "currentPrice", "regularMarketPrice">>,
      <<"volume", "volume", "regularMarketVolume">>,
      <<"peRatio", "trailingPE", "forwardPE">>,
      <<"eps", "trailingEps", "forwardEps">>,
      <<"open", "open", "regularMarketOpen">>,
      <<"dayHigh", "dayHigh", "regularMarketDayHigh">>,
      <<"dayLow", "dayLow", "regularMarketDayLow">>,
      <<"previousClose", "previousClose", "regularMarketPreviousClose">>,
      <<"averageVolume", "averageVolume", "averageVolume10days">> }

PresentNonNull(raw, f) == f \in DOMAIN raw /\ raw[f] # None

\* C10: for every output field with a fallback chain, the record holds the
\* value of the first chain member that is present and non-null in the raw
\* record; a present non-null first member, the value 0 included, is never
\* replaced by a later member.
C10_FirstPresentMemberWins ==
    \A o \in 1..Len(heap), ch \in Chains :
        (\E i \in 1..Len(cache) : cache[i].obj = o) /\ ch[1] \in DOMAIN heap[o]
        => LET raw == upstream[heap[o]["symbol"]].info IN
           /\ PresentNonNull(raw, ch[2]) => heap[o][ch[1]] = raw[ch[2]]
           /\ (~PresentNonNull(raw, ch[2]) /\ PresentNonNull(raw, ch[3]))
                => heap[o][ch[1]] = raw[ch[3]]


\* ------------------------------------------------------------------------
\* SpecFill: the store filled from empty with distinct keys
\* ------------------------------------------------------------------------
FillSymbols == {TCS, NEWCO}

InitFill ==
    /\ cache = <<>>
    /\ heap = <<>>
    /\ now = 0
    /\ upstream = Upstream0
    /\ reqs = [s \in {1} |-> IdleReq]
    /\ tasks = <<>>
    /\ queue = <<>>
    /\ fill = OpenFill

\* Requests keep coming while the history is open.
NextFill ==
    \/ \E s \in Slots, k \in SingleKinds, sym \in FillSymbols :
          /\ fill.open
          /\ fill.puts < MAX_CACHE_SIZE + 2
          /\ StartSingle(s, k, sym)
    \/ Steps
    \/ Clock

SpecFill == InitFill /\ [][NextFill]_vars

\* No put is between its first and its last step.
NoPutRunning == \A t \in DOMAIN tasks : tasks[t].pc \in {"queued", "fetch", "done"}

\* C4: when the provider answers a record with fewer fields than the
\* threshold (here the empty record), the request ends as not found and the
\* store gets no entry for the symbol.
C4_EmptyRecordIsNotFound ==
    /\ \A i \in 1..Len(cache) : DOMAIN upstream[cache[i].key[2]].info # {}
    /\ \A s \in Slots :
          (/\ reqs[s].pc = "done"
           /\ AddSuffix(reqs[s].arg) \in DOMAIN upstream
           /\ DOMAIN upstream[AddSuffix(reqs[s].arg)].info = {})
          => reqs[s].resp.status # 200

\* C5 as stated: after MAX_CACHE_SIZE + 1 stores to distinct keys into an
\* empty store exactly one eviction has happened.
C5_OneEvictionAtMaxPlusOne ==
    (fill.open /\ fill.puts = MAX_CACHE_SIZE + 1 /\ NoPutRunning)
    => Len(fill.evicted) = 1

\* C5 amended: the first MAX_CACHE_SIZE + 1 stores to distinct keys evict
\* nothing and the store then holds them all; the store number
\* MAX_CACHE_SIZE + 2 is preceded by exactly one eviction, of an entry with
\* the smallest storedAt among the entries present at that moment.
C5_OneEvictionAtMaxPlusTwo ==
    fill.open =>
        /\ Len(fill.evicted) > 0 => fill.puts >= MAX_CACHE_SIZE + 1
        /\ (fill.puts <= MAX_CACHE_SIZE + 1 /\ Len(fill.evicted) = 0)
             => (Len(cache) = fill.puts /\ Keys(cache) = fill.keys)
        /\ fill.puts = MAX_CACHE_SIZE + 2
             => /\ Len(fill.evicted) = 1
                /\ fill.evicted[1].oldest
                /\ fill.evicted[1].key \in fill.keys
                /\ Keys(cache) = fill.keys \ {fill.evicted[1].key}
                /\ Len(cache) = MAX_CACHE_SIZE + 1

\* C5 witness: MAX_CACHE_SIZE + 2 distinct keys have been stored.
C5_FilledPastMax == fill.open /\ fill.puts = MAX_CACHE_SIZE + 2


\* ------------------------------------------------------------------------
\* SpecBatch: batch requests, the jobs of a batch run one after the other
\* ------------------------------------------------------------------------
\* "a,b,c" from <<a, b, c>>
RECURSIVE Join(_)
Join(list) ==
    IF Len(list) = 0 THEN <<>>
    ELSE IF Len(list) = 1 THEN list[1]
    ELSE list[1] \o <<",">> \o Join(Tail(list))

\* n symbols: a known one without the suffix, a known one with the suffix
\* and a leading blank, an unknown one, and so on.
SymbolsOfLength(n) ==
    [i \in 1..n |->
        IF i % 3 = 1 THEN <<"TCS">>
        ELSE IF i % 3 = 2 THEN <<" ">> \o INFY
        ELSE <<"ZZZ-BAD">>]

BatchLengths == {1, 3, WATCHLIST_LIMIT + 1, BATCH_PRICE_LIMIT + 1}

BatchInputs == {Join(SymbolsOfLength(n)) : n \in BatchLengths}

BatchKinds == {"batch_price", "watchlist"}

NextBatch ==
    \/ \E s \in Slots, q \in BatchInputs : StartBatch(s, "batch_price", q, "")
    \/ \E s \in Slots, q \in BatchInputs, w \in {"price", "summary"} :
          StartBatch(s, "watchlist", q, w)
    \/ \E s \in Slots : Gather(s)
    \/ \E t \in DOMAIN tasks : Running = {} /\ TaskStart(t)
    \/ \E t \in DOMAIN tasks : Fetch(t)
    \/ \E t \in DOMAIN tasks : PutLen(t)
    \/ \E t \in DOMAIN tasks : MinStart(t)
    \/ \E t \in DOMAIN tasks : MinEnd(t)
    \/ \E t \in DOMAIN tasks : PutDel(t)
    \/ \E t \in DOMAIN tasks : PutStore(t)

SpecBatch == Init /\ [][NextBatch]_vars

\* The number of symbols of a batch request.
Requested(s) == Len(Split(reqs[s].arg))

\* The records and the errors of a batch response.
SuccessesOf(resp) ==
    IF "prices" \in DOMAIN resp.content THEN resp.content["prices"]
    ELSE resp.content["watchlist"]

ErrorsOf(resp) ==
    IF "errors" \in DOMAIN resp.content THEN resp.content["errors"] ELSE <<>>

\* C8: a batch of n symbols, of either batch view, yields one outcome for
\* each of the first min(n, 20) symbols, a record or an error naming the
\* symbol: |successes| + |errors| = min(n, 20).
C8_BatchPartitionsSymbols ==
    \A s \in Slots :
        (reqs[s].kind \in BatchKinds /\ reqs[s].pc = "done")
        => /\ reqs[s].resp.status = 200
           /\ Len(SuccessesOf(reqs[s].resp)) + Len(ErrorsOf(reqs[s].resp))
                = (IF Requested(s) < 20 THEN Requested(s) ELSE 20)
           /\ \A i \in 1..Len(ErrorsOf(reqs[s].resp)) :
                \E j \in 1..Requested(s) :
                    ErrorsOf(reqs[s].resp)[i] = AddSuffix(Strip(Split(reqs[s].arg)[j]))

\* C8 restricted to /batch/price, which does return the errors.
C8_PriceBatchPartitions ==
    \A s \in Slots :
        (reqs[s].kind = "batch_price" /\ reqs[s].pc = "done")
        => /\ reqs[s].resp.status = 200
           /\ Len(SuccessesOf(reqs[s].resp)) + Len(ErrorsOf(reqs[s].resp))
                = (IF Requested(s) < 20 THEN Requested(s) ELSE 20)


\* ------------------------------------------------------------------------
\* SpecRace: two requests in flight, their fetches on two worker threads
\* ------------------------------------------------------------------------
\* The keys of the entries the store holds when the two requests arrive, in
\* the order in which they were stored.
RaceKeys ==
    << <<"price", TCS>>, <<"company", TCS>>, <<"company", NEWCO>>, <<"price", NEWCO>> >>

RaceRecord(i) ==
    BuildResult(RaceKeys[i][2], IF RaceKeys[i][1] = "price" THEN "price_only" ELSE "summary",
                Upstream0[RaceKeys[i][2]].info, Upstream0[RaceKeys[i][2]].hist, i - 1)

\* The store holds MAX_CACHE_SIZE + 1 entries, stored by earlier batch
\* requests one second apart from time 0 on; the oldest, a price entry, has
\* just reached its TTL.
InitRace ==
    /\ cache = [i \in 1..(MAX_CACHE_SIZE + 1) |-> [key |-> RaceKeys[i], obj |-> i, ts |-> i - 1]]
    /\ heap = [i \in 1..(MAX_CACHE_SIZE + 1) |-> RaceRecord(i)]
    /\ now = PRICE_CACHE_DURATION
    /\ upstream = Upstream0
    /\ reqs = [s \in {1, 2} |-> IdleReq]
    /\ tasks = <<>>
    /\ queue = <<>>
    /\ fill = ClosedFill

RaceSymbols == {TCS, NEWCO}

NextRace ==
    \/ \E s \in Slots, sym \in RaceSymbols : StartSingle(s, "price", sym)
    \/ Steps

SpecRace == InitRace /\ [][NextRace]_vars

\* C9: get and put are linearizable.  No update is lost: an entry leaves
\* the store only as the eviction a put makes, which removes the entry with
\* the smallest storedAt, so a completed put stays visible until it is
\* overwritten or is the oldest entry of the store.
C9_OnlyTheOldestIsEvicted ==
    [][\A i \in 1..Len(cache) :
          cache[i].key \notin Keys(cache')
          => \A j \in 1..Len(cache) : cache[i].ts <= cache[j].ts]_vars

\* ------------------------------------------------------------------------
\* Further claims checked under Spec, SpecBatch and SpecRace
\* ------------------------------------------------------------------------
\* C11: a single-symbol request whose upstream fetch fails because the
\* symbol is unknown ends with status 404, not with the status 500 of an
\* internal defect.
C11_UnknownSymbolIsNotFound ==
    \A s \in Slots :
        (/\ reqs[s].kind \in SingleKinds
         /\ reqs[s].pc = "done"
         /\ UpstreamRaises(AddSuffix(reqs[s].arg)))
        => reqs[s].resp.status = 404

\* The view class and the symbol a batch job fetches for.
JobKey(t) == CacheKey(CacheType(tasks[t].data_type), AddSuffix(tasks[t].symbol))

\* C12: a batch request returns the cached record for a symbol whose entry
\* for the requested view class is younger than its TTL, and does not call
\* upstream for it: no job of a batch makes the upstream call while the
\* store holds a fresh entry under the job's key.
C12_BatchServesFreshEntries ==
    [][\A t \in DOMAIN tasks :
          (/\ reqs[t[1]].kind \in BatchKinds
           /\ tasks[t].pc = "fetch"
           /\ t \in DOMAIN tasks'
           /\ tasks'[t].pc # "fetch")
          => ~(/\ HasKey(cache, JobKey(t))
               /\ now - Entry(cache, JobKey(t)).ts < TtlOf(JobKey(t)))]_vars

\* C14: in every reachable state, under any interleaving of the workers'
\* puts, the store holds at most maxSize + 1 entries.
C14_SizeAtMostMaxPlusOne == Len(cache) <= MAX_CACHE_SIZE + 1

\* C15: when workers run put concurrently on a store over its maximum,
\* every put completes: no fetch whose upstream call returned data is
\* reported as an error.
C15_FetchedDataIsNeverAnError ==
    \A t \in DOMAIN tasks :
        (tasks[t].pc = "done" /\ ~UpstreamRaises(AddSuffix(tasks[t].symbol)))
        => ~IsError(heap[tasks[t].res])

\* ------------------------------------------------------------------------
\* Further claims checked under SpecFill
\* ------------------------------------------------------------------------
\* The entries of the store as the set of (key, storedAt, record) triples.
Stored(c, h) == {[key |-> c[i].key, ts |-> c[i].ts, rec |-> h[c[i].obj]] : i \in 1..Len(c)}

\* Task t takes a step from the given place of set_cache_data.
PutAt(t, pcs) == tasks[t].pc \in pcs /\ t \in DOMAIN tasks' /\ tasks'[t].pc # tasks[t].pc

\* C13: a put run without interference first tests the entry count; if it
\* exceeds the maximum exactly one entry is removed, one with the smallest
\* storedAt over the entries of both classes, expired or not; if it does
\* not, no entry is removed.  Then the entry for the key is set to
\* (record, now), replacing any earlier entry for the key.
C13_PutEvictsOldestThenStores ==
    [][\A t \in DOMAIN tasks :
          /\ PutAt(t, {"put_len"})
             => /\ Stored(cache', heap') = Stored(cache, heap)
                /\ (tasks'[t].pc = "put_store") <=> (Len(cache) <= MAX_CACHE_SIZE)
                /\ (tasks'[t].pc = "min_start") <=> (Len(cache) > MAX_CACHE_SIZE)
          /\ PutAt(t, {"min_start", "min_end"})
             => /\ Stored(cache', heap') = Stored(cache, heap)
                /\ tasks'[t].pc \in {"min_end", "put_del"}
          /\ PutAt(t, {"put_del"})
             => /\ tasks'[t].pc = "put_store"
                /\ Len(cache') = Len(cache) - 1
                /\ \E e \in Stored(cache, heap) :
                      /\ \A f \in Stored(cache, heap) : e.ts <= f.ts
                      /\ Stored(cache', heap') = Stored(cache, heap) \ {e}
          /\ PutAt(t, {"put_store"})
             => LET old == {e \in Stored(cache, heap) : e.key = JobKey(t)}
                    new == [key |-> JobKey(t), ts |-> now, rec |-> heap[tasks[t].res]]
                IN
                /\ tasks'[t].pc = "done"
                /\ Stored(cache', heap') = (Stored(cache, heap) \ old) \cup {new}
                /\ Len(cache') = Len(cache) + 1 - Cardinality(old)]_vars

\* C13 witness: a put has just evicted a company entry that had not
\* expired, while the store holds an expired price entry stored later.
C13_UnexpiredOldestEvicted ==
    \E t \in DOMAIN tasks :
        /\ tasks[t].pc = "put_store"
        /\ Len(fill.evicted) = 1
        /\ fill.evicted[1].key[1] = "company"
        /\ now < COMPANY_CACHE_DURATION
        /\ \E i \in 1..Len(cache) :
              cache[i].key[1] = "price" /\ now - cache[i].ts >= PRICE_CACHE_DURATION

\* ------------------------------------------------------------------------
\* SpecPool: a batch of more jobs than the executor has worker threads
\* ------------------------------------------------------------------------
\* The jobs of the largest batch: two more than there are workers.
PoolJobs == 1..(max_workers + 2)

\* Batches of one symbol and of Cardinality(PoolJobs) symbols; upstream
\* raises for each of them, so a job is one upstream call.
PoolInputs ==
    {Join([i \in 1..n |-> <<"ZZZ-BAD">>]) : n \in {1, Cardinality(PoolJobs)}}

NextPool ==
    \/ \E s \in Slots, q \in PoolInputs : StartBatch(s, "batch_price", q, "")
    \/ \E s \in Slots, q \in PoolInputs : StartBatch(s, "watchlist", q, "price")
    \/ \E s \in Slots : Gather(s)
    \/ \E t \in DOMAIN tasks : TaskStart(t)
    \/ \E t \in DOMAIN tasks : Fetch(t)

\* An idle worker thread takes the job at the head of the executor's queue,
\* and a running worker thread is scheduled until its upstream call returns.
SpecPool ==
    /\ Init
    /\ [][NextPool]_vars
    /\ WF_vars(\E t \in DOMAIN tasks : TaskStart(t))
    /\ WF_vars(\E t \in DOMAIN tasks : Fetch(t))

\* The jobs of the largest batch that are submitted while every worker has
\* an earlier job of the batch to run.
LateJobs == {i \in PoolJobs : i > max_workers}

\* Job i of the request in progress waits in the executor's queue.
Waiting(i) == <<1, i>> \in DOMAIN tasks /\ tasks[<<1, i>>].pc = "queued"

\* Job i of the request in progress runs on a worker thread.
InFlight(i) == <<1, i>> \in DOMAIN tasks /\ tasks[<<1, i>>].pc = "fetch"

CancelInputs == {Join(<<TCS, NEWCO>>)}

\* A step of set_cache_data by a worker thread.
PutSteps ==
    \E t \in DOMAIN tasks :
        PutLen(t) \/ MinStart(t) \/ MinEnd(t) \/ PutDel(t) \/ PutStore(t)

NextCancel ==
    \/ \E s \in Slots, k \in SingleKinds : StartSingle(s, k, TCS)
    \/ \E s \in Slots, q \in CancelInputs : StartBatch(s, "watchlist", q, "summary")
    \/ \E s \in Slots : GetIn(s)
    \/ \E s \in Slots : GetRead(s)
    \/ \E s \in Slots : ServeHit(s)
    \/ \E s \in Slots : Submit(s)
    \/ \E s \in Slots : Await(s)
    \/ \E s \in Slots : Gather(s)
    \/ \E s \in Slots : Cancel(s)
    \/ \E s \in Slots : Drop(s)
    \/ \E t \in DOMAIN tasks : Running = {} /\ TaskStart(t)
    \/ \E t \in DOMAIN tasks : Fetch(t)
    \/ PutSteps
    \/ Clock

\* A worker thread that has its upstream answer runs set_cache_data to the
\* end, whether or not anybody awaits the result.
SpecCancel == Init /\ [][NextCancel]_vars /\ WF_vars(PutSteps)

\* Job i of a cancelled request has its upstream data and is in
\* set_cache_data.
OrphanStoring(i) ==
    /\ reqs[1].pc = "cancelled"
    /\ i <= reqs[1].ntasks
    /\ tasks[<<1, i>>].pc \in {"put_len", "min_start", "min_end", "put_del", "put_store"}

\* Job i of a cancelled request has ended and the store holds, under the
\* job's key, the very record the job built from the upstream data.
OrphanStored(i) ==
    /\ reqs[1].pc = "cancelled"
    /\ i <= reqs[1].ntasks
    /\ tasks[<<1, i>>].pc = "done"
    /\ HasKey(cache, JobKey(<<1, i>>))
    /\ Entry(cache, JobKey(<<1, i>>)).obj = tasks[<<1, i>>].res
    /\ Entry(cache, JobKey(<<1, i>>)).ts = now
    /\ heap[tasks[<<1, i>>].res]
         = BuildResult(tasks[<<1, i>>].symbol, tasks[<<1, i>>].data_type,
                       upstream[tasks[<<1, i>>].symbol].info,
                       upstream[tasks[<<1, i>>].symbol].hist, now)

\* C17: if a caller abandons a single or batch request after its fetch has
\* started on a worker, and the upstream call then returns data, the store
\* eventually holds an entry for the fetched key with that data.
C17_AbandonedFetchStillStores ==
    \A i \in 1..2 : OrphanStoring(i) ~> OrphanStored(i)

\* C17 witness: the fetch of an abandoned request has stored its record.
C17_OrphanHasStored == \E i \in 1..2 : OrphanStored(i)

\* ------------------------------------------------------------------------
\* SpecFail: two requests in flight and a provider that starts to fail
\* ------------------------------------------------------------------------
NextFail ==
    \/ \E s \in Slots, sym \in RaceSymbols : StartSingle(s, "price", sym)
    \/ Steps
    \/ Outage(TCS)

SpecFail == InitRace /\ [][NextFail]_vars

\* Job t ends in this step with an error result.
EndsInError(t) ==
    /\ tasks[t].pc # "done"
    /\ t \in DOMAIN tasks'
    /\ tasks'[t].pc = "done"
    /\ IsError(heap'[tasks'[t].res])

\* C18: a fetch that ends in an error leaves the store unchanged: no entry
\* is inserted, overwritten or evicted by it, and an earlier entry for its
\* key stays as it was.  The step in which a fetch fails changes nothing,
\* and a fetch that has evicted or stored an entry does not fail.
C18_FailedFetchLeavesStoreAlone ==
    [][\A t \in DOMAIN tasks :
          /\ EndsInError(t)
             => /\ Stored(cache', heap') = Stored(cache, heap)
                /\ Len(cache') = Len(cache)
                /\ tasks[t].pc \in {"fetch", "min_end", "put_del"}
          /\ PutAt(t, {"fetch", "put_len", "min_start", "min_end"})
             => Stored(cache', heap') = Stored(cache, heap)
          /\ (PutAt(t, {"put_del"}) /\ Stored(cache', heap') # Stored(cache, heap))
             => tasks'[t].pc = "put_store"
          /\ PutAt(t, {"put_store"})
             => (tasks'[t].pc = "done" /\ ~IsError(heap'[tasks'[t].res]))]_vars

\* C18 witness: a fetch has ended in an error because upstream raised, and
\* the entry stored earlier under its key is still in the store.
C18_FailedFetchKeptEntry ==
    \E t \in DOMAIN tasks :
        /\ tasks[t].pc = "done"
        /\ IsError(heap[tasks[t].res])
        /\ UpstreamRaises(tasks[t].symbol)
        /\ HasKey(cache, JobKey(t))

\* ------------------------------------------------------------------------
\* SpecNorm: the record built from every raw record of a bounded set
\* ------------------------------------------------------------------------
\* Marks a key the raw record does not have.
Absent == [t |-> "absent", v |-> 0]

\* What the provider may hold for a 52-week field: no key, null, zero or a
\* positive number.
RawValues == {Absent, None, Num(0), Num(120)}

\* The raw record with the given 52-week fields; RawOf(Absent, Absent) is
\* the empty record.
RawOf(high, low) ==
    LET val == [k \in {"fiftyTwoWeekHigh", "fiftyTwoWeekLow"} |->
                   IF k = "fiftyTwoWeekHigh" THEN high ELSE low]
    IN
    [k \in {x \in DOMAIN val : val[x] # Absent} |-> val[k]]

\* One year of daily highs and lows, or no history at all.
Histories == {<<>>, YearHist}

InitNorm ==
    /\ cache = <<>>
    /\ heap = <<>>
    /\ now = 0
    /\ upstream \in {[x \in {TCS} |-> Answer(RawOf(high, low), hist)] :
                        high \in RawValues, low \in RawValues, hist \in Histories}
    /\ reqs = [s \in {1} |-> IdleReq]
    /\ tasks = <<>>
    /\ queue = <<>>
    /\ fill = ClosedFill

NextNorm ==
    \/ \E s \in Slots, k \in SingleKinds : StartSingle(s, k, TCS)
    \/ Steps
    \/ Clock

SpecNorm == InitNorm /\ [][NextNorm]_vars

\* The records the store holds.
Records == {heap[cache[i].obj] : i \in 1..Len(cache)}

\* The view of a stored record, told by its fields.
ViewOf(r) ==
    IF "currency" \in DOMAIN r THEN "full"
    ELSE IF "name" \in DOMAIN r THEN "summary"
    ELSE "price_only"

\* The numeric fields of the price view.
NumericFields == {"currentPrice", "change", "changePercent", "volume"}

\* C19: for every raw record, the empty one included, and every view the
\* output has every field declared for the view, and a field whose whole
\* chain is absent from the raw record takes its default: 0 for a numeric
\* field, the "not available" marker (null) for a free-text or ratio field.
C19_AbsentFieldsTakeDefaults ==
    \A r \in Records :
        LET raw == upstream[r["symbol"]].info IN
        /\ (DOMAIN Untagged(r))
             = DOMAIN BuildResult(r["symbol"], ViewOf(r), EmptyRaw, <<>>, 0)
        /\ \A f \in NumericFields \cap DOMAIN r :
              (raw = EmptyRaw) => r[f] = Num(0)

\* C20: in the full view fiftyTwoWeekHigh is the raw field when it is
\* present, otherwise the maximum of the year's daily highs, and the "not
\* available" marker (null) when there is no history either; likewise
\* fiftyTwoWeekLow with the minimum of the daily lows.  A present raw field
\* is never replaced by the derived value.
C20_RawYearRangeWins ==
    \A r \in Records :
        ViewOf(r) = "full"
        => LET raw  == upstream[r["symbol"]].info
               hist == upstream[r["symbol"]].hist
           IN
           /\ r["fiftyTwoWeekHigh"] =
                IF PresentNonNull(raw, "fiftyTwoWeekHigh") THEN raw["fiftyTwoWeekHigh"]
                ELSE IF hist # <<>> THEN Num(SeqMax(hist, "High"))
                ELSE None
           /\ r["fiftyTwoWeekLow"] =
                IF PresentNonNull(raw, "fiftyTwoWeekLow") THEN raw["fiftyTwoWeekLow"]
                ELSE IF hist # <<>> THEN Num(SeqMin(hist, "Low"))
                ELSE None

====
